---- MODULE Spec2Model ----
(***************************************************************************)
(* Model of the MNIST notebook (mnist.ipynb): the train/validation split,  *)
(* the batch generator data_stream() and the training driver.              *)
(*                                                                         *)
(* Arrays are sequences of sample identifiers: row k of the loaded         *)
(* training arrays is <<"train", k>>, row j of the test arrays is          *)
(* <<"t10k", j>>.  Python index k of an array is element k+1 of the        *)
(* sequence.  The network, the loss and the optimiser are library black    *)
(* boxes: params and opt_state are the number of replacements they have    *)
(* gone through, and a loss/accuracy value is the record of its arguments. *)
(* validation_split is the rational vs_num / FracDen.  The numpy generator *)
(* RandomState(0) is abstracted: rng.permutation(n) may return any         *)
(* permutation of 0..n-1.                                                  *)
(***************************************************************************)
EXTENDS Integers, Sequences, FiniteSets, TLC

\* ---------------------------------------------------------------- bounds
MaxN == 3
MaxBatch == 2
MaxEpochs == 2
MaxTest == 1
FracDen == 4

VARIABLES
    loaded,            \* train_images.shape[0] as returned by datasets.mnist()
    vs_num,            \* validation_split = vs_num / FracDen
    batch_size,
    num_epochs,
    train_samples,
    val_samples,
    train_images,
    train_labels,
    val_images,
    val_labels,
    test_images,
    test_labels,
    num_batches,
    \* ---- the generator object "batches" (frame of data_stream)
    gen_pc,            \* "none" | "unstarted" | "while" | "for" | "yield"
    resumed,           \* TRUE while a next(batches) call is running the frame
    perm,
    i,
    batch_idx,
    yielded,           \* the pair handed over by the last yield
    pass,              \* history: index slices yielded since the last permutation
    prevPass,          \* history: the slices of the pass before
    passes,            \* history: number of permutations drawn, saturating at 2
    \* ---- the training driver
    pc,                \* position of the notebook's top-level code
    epoch,
    bi,                \* position of "for _ in range(num_batches)"
    x,
    y,
    grad,
    params,
    opt_state,
    train_acc,
    val_acc,
    test_acc,
    out,               \* lines printed to standard output
    contrib            \* history: per sample, number of updates it entered

hpVars   == <<loaded, vs_num, batch_size, num_epochs>>
dataVars == <<train_samples, val_samples, train_images, train_labels,
              val_images, val_labels, test_images, test_labels, num_batches>>
genVars  == <<gen_pc, resumed, perm, i, batch_idx, yielded, pass, prevPass, passes>>
drvVars  == <<pc, epoch, bi, x, y, grad, params, opt_state,
              train_acc, val_acc, test_acc, out, contrib>>
vars     == <<hpVars, dataVars, genVars, drvVars>>

\* ------------------------------------------------------ Python primitives
Min(a, b) == IF a < b THEN a ELSE b
Max(a, b) == IF a > b THEN a ELSE b

\* variant: round(num/den) upward instead of int()
PyInt_RoundUp(num, den) == (num + den - 1) \div den

\* int(num/den) for den > 0: truncation toward zero
PyInt(num, den) ==
    IF num >= 0 THEN num \div den ELSE -((-num) \div den)

\* index normalisation of a slice bound against a length n
SliceBound(k, n) == IF k < 0 THEN Max(k + n, 0) ELSE Min(k, n)

\* a[lo:hi]
PySlice(a, lo, hi) ==
    SubSeq(a, SliceBound(lo, Len(a)) + 1, SliceBound(hi, Len(a)))

\* a[idx] for an integer index array idx (one row per index)
Take(a, idx) == [k \in 1..Len(idx) |-> a[idx[k] + 1]]

\* variant: n draws with replacement (rng.randint(n, size=n))
Permutation_WithReplacement(n) == [1..n -> 0..(n-1)]

\* the values rng.permutation(n) can return
Permutation(n) ==
    {p \in [1..n -> 0..(n-1)] : \A j, k \in 1..n : p[j] = p[k] => j = k}

\* datasets.mnist(): row k of the training arrays, row j of the test arrays
MnistTrain(n) == [k \in 1..n |-> <<"train", k - 1>>]
MnistTest(n)  == [k \in 1..n |-> <<"t10k", k - 1>>]

\* ------------------------------------------- dataset cell, its arithmetic
\* int(train_samples * validation_split); the product n * (num / FracDen) is
\* taken exactly, the rounding of the float product is not represented
ValSamples(n, num) == PyInt(n * num, FracDen)
TrainSamples(n, num) == n - ValSamples(n, num)

\* variant: the validation slice starts at val_samples: a[val_samples:]
ValSplit_FromValSamples(a, ts) == PySlice(a, Len(a) - ts, Len(a))

TrainSplit(a, ts) == PySlice(a, 0, ts)
ValSplit(a, ts) == PySlice(a, ts, Len(a))

Leftover(ts, b) == ts % b
NumCompleteBatches(ts, b) == ts \div b
\* variant: the partial batch is not counted
NumBatches_NoPartial(ts, b) == NumCompleteBatches(ts, b)

NumBatches(ts, b) ==
    NumCompleteBatches(ts, b) + (IF Leftover(ts, b) # 0 THEN 1 ELSE 0)

\* variant: inclusive upper slice bound
BatchIdx_Overlong(p, k, b) == PySlice(p, k * b, (k + 1) * b + 1)

\* perm[i * batch_size : (i + 1) * batch_size]
BatchIdx(p, k, b) == PySlice(p, k * b, (k + 1) * b)

\* ------------------------------------------------------- loss and metric
cross_entropy_loss(p, bx, by) == [fn |-> "loss", params |-> p, x |-> bx, y |-> by]
accuracy(p, bx, by) == [fn |-> "accuracy", params |-> p, x |-> bx, y |-> by]
NoValue == [fn |-> "none", params |-> 0, x |-> <<>>, y |-> <<>>]

Line(text, e, v) == [text |-> text, epoch |-> e, value |-> v]

\* ------------------------------------------------------------------ Init
\* the state after datasets.mnist() has returned, the hyperparameters are
\* set and the optimiser is initialised; names not yet bound hold 0 or <<>>
Init ==
    /\ loaded \in 0..MaxN
    /\ vs_num \in 0..FracDen
    /\ batch_size \in 1..MaxBatch
    /\ num_epochs \in 0..MaxEpochs
    /\ train_images = MnistTrain(loaded)
    /\ train_labels = MnistTrain(loaded)
    /\ val_samples = 0
    /\ train_samples = 0
    /\ val_images = <<>>
    /\ val_labels = <<>>
    /\ \E t \in 1..MaxTest :
          /\ test_images = MnistTest(t)
          /\ test_labels = MnistTest(t)
    /\ num_batches = 0
    /\ gen_pc = "none"
    /\ resumed = FALSE
    /\ perm = <<>>
    /\ i = 0
    /\ batch_idx = <<>>
    /\ yielded = <<<<>>, <<>>>>
    /\ pass = <<>>
    /\ prevPass = <<>>
    /\ passes = 0
    /\ pc = "split"
    /\ epoch = 0
    /\ bi = 0
    /\ x = <<>>
    /\ y = <<>>
    /\ grad = NoValue
    /\ params = 0
    /\ opt_state = 0
    /\ train_acc = NoValue
    /\ val_acc = NoValue
    /\ test_acc = NoValue
    /\ out = <<>>
    /\ contrib = [s \in {MnistTrain(loaded)[k] : k \in 1..loaded}
                        \cup {test_images[k] : k \in 1..Len(test_images)} |-> 0]

\* ------------------------------------------------------- the dataset cell
\* train_samples, val_samples and the four slices
SplitData ==
    /\ pc = "split"
    /\ val_samples' = ValSamples(Len(train_images), vs_num)
    /\ train_samples' = TrainSamples(Len(train_images), vs_num)
    /\ train_images' = TrainSplit(train_images, train_samples')
    /\ val_images' = ValSplit(train_images, train_samples')
    /\ train_labels' = TrainSplit(train_labels, train_samples')
    /\ val_labels' = ValSplit(train_labels, train_samples')
    /\ pc' = "count_batches"
    /\ UNCHANGED <<test_images, test_labels, num_batches>>
    /\ UNCHANGED <<epoch, bi, x, y, grad, params, opt_state,
                   train_acc, val_acc, test_acc, out, contrib>>
    /\ UNCHANGED <<hpVars, genVars>>

\* num_complete_batches, leftover = divmod(...); num_batches = ...
CountBatches ==
    /\ pc = "count_batches"
    /\ num_batches' = NumBatches(train_samples, batch_size)
    /\ pc' = "make_stream"
    /\ UNCHANGED <<train_samples, val_samples, train_images, train_labels,
                   val_images, val_labels, test_images, test_labels>>
    /\ UNCHANGED <<epoch, bi, x, y, grad, params, opt_state,
                   train_acc, val_acc, test_acc, out, contrib>>
    /\ UNCHANGED <<hpVars, genVars>>

\* batches = data_stream(): the generator object is created, its body not run
MakeStream ==
    /\ pc = "make_stream"
    /\ gen_pc' = "unstarted"
    /\ pc' = "print_start"
    /\ UNCHANGED <<resumed, perm, i, batch_idx, yielded, pass, prevPass, passes>>
    /\ UNCHANGED <<epoch, bi, x, y, grad, params, opt_state,
                   train_acc, val_acc, test_acc, out, contrib>>
    /\ UNCHANGED <<hpVars, dataVars>>

\* --------------------------------------------- data_stream(), one frame
\* first next(): rng = npr.RandomState(0)
GenStart ==
    /\ resumed /\ gen_pc = "unstarted"
    /\ gen_pc' = "while"
    /\ UNCHANGED <<resumed, perm, i, batch_idx, yielded, pass, prevPass, passes>>
    /\ UNCHANGED <<hpVars, dataVars, drvVars>>

\* while True: perm = rng.permutation(train_samples); i = first of range
GenPermute ==
    /\ resumed /\ gen_pc = "while"
    /\ perm' \in Permutation(train_samples)
    /\ i' = 0
    /\ gen_pc' = "for"
    /\ prevPass' = pass
    /\ pass' = <<>>
    /\ passes' = Min(passes + 1, 2)
    /\ UNCHANGED <<resumed, batch_idx, yielded>>
    /\ UNCHANGED <<hpVars, dataVars, drvVars>>

\* loop body: slice, index, yield
GenYield ==
    /\ resumed /\ gen_pc = "for" /\ i < num_batches
    /\ batch_idx' = BatchIdx(perm, i, batch_size)
    /\ yielded' = <<Take(train_images, batch_idx'), Take(train_labels, batch_idx')>>
    /\ pass' = Append(pass, batch_idx')
    /\ gen_pc' = "yield"
    /\ resumed' = FALSE
    /\ UNCHANGED <<perm, i, prevPass, passes>>
    /\ UNCHANGED <<hpVars, dataVars, drvVars>>

\* resumption after a yield: next value of range(num_batches)
GenResume ==
    /\ resumed /\ gen_pc = "yield"
    /\ i' = i + 1
    /\ gen_pc' = "for"
    /\ UNCHANGED <<resumed, perm, batch_idx, yielded, pass, prevPass, passes>>
    /\ UNCHANGED <<hpVars, dataVars, drvVars>>

\* range(num_batches) exhausted: back to the head of while True
GenForEnd ==
    /\ resumed /\ gen_pc = "for" /\ i >= num_batches
    /\ gen_pc' = "while"
    /\ UNCHANGED <<resumed, perm, i, batch_idx, yielded, pass, prevPass, passes>>
    /\ UNCHANGED <<hpVars, dataVars, drvVars>>

GenStep == GenStart \/ GenPermute \/ GenYield \/ GenResume \/ GenForEnd

\* a consumer of the generator other than the driver: next(batches)
StreamNext ==
    /\ gen_pc # "none"
    /\ ~resumed
    /\ resumed' = TRUE
    /\ UNCHANGED <<gen_pc, perm, i, batch_idx, yielded, pass, prevPass, passes>>
    /\ UNCHANGED <<hpVars, dataVars, drvVars>>

StreamStep ==
    SplitData \/ CountBatches \/ MakeStream \/ StreamNext \/ GenStart \/ GenPermute \/ GenYield \/ GenResume \/ GenForEnd
Stream == Init /\ [][StreamStep]_vars
FairStream == Stream /\ WF_vars(GenStep)

\* ------------------------------------------------------ the training cell
\* print("Starting training...")
PrintStart ==
    /\ pc = "print_start"
    /\ out' = Append(out, Line("Starting training...", -1, NoValue))
    /\ pc' = "epoch_head"
    /\ UNCHANGED <<epoch, bi, x, y, grad, params, opt_state,
                   train_acc, val_acc, test_acc, contrib>>
    /\ UNCHANGED <<hpVars, dataVars, genVars>>

\* variant: range(num_epochs + 1)
LoopEpoch_OneMore ==
    /\ pc = "epoch_head"
    /\ IF epoch <= num_epochs
          THEN /\ bi' = 0
               /\ pc' = "batch_head"
          ELSE /\ bi' = bi
               /\ pc' = "print_testing"
    /\ UNCHANGED <<epoch, x, y, grad, params, opt_state,
                   train_acc, val_acc, test_acc, out, contrib>>
    /\ UNCHANGED <<hpVars, dataVars, genVars>>

\* for epoch in range(num_epochs): enter the body or leave the loop
LoopEpoch ==
    /\ pc = "epoch_head"
    /\ IF epoch < num_epochs
          THEN /\ bi' = 0
               /\ pc' = "batch_head"
          ELSE /\ bi' = bi
               /\ pc' = "print_testing"
    /\ UNCHANGED <<epoch, x, y, grad, params, opt_state,
                   train_acc, val_acc, test_acc, out, contrib>>
    /\ UNCHANGED <<hpVars, dataVars, genVars>>

\* variant: range(num_batches + 1)
LoopBatch_OneMore ==
    /\ pc = "batch_head"
    /\ pc' = IF bi <= num_batches THEN "next" ELSE "train_acc"
    /\ UNCHANGED <<epoch, bi, x, y, grad, params, opt_state,
                   train_acc, val_acc, test_acc, out, contrib>>
    /\ UNCHANGED <<hpVars, dataVars, genVars>>

\* variant: range(num_complete_batches)
LoopBatch_CompleteOnly ==
    /\ pc = "batch_head"
    /\ pc' = IF bi < NumCompleteBatches(train_samples, batch_size)
                THEN "next" ELSE "train_acc"
    /\ UNCHANGED <<epoch, bi, x, y, grad, params, opt_state,
                   train_acc, val_acc, test_acc, out, contrib>>
    /\ UNCHANGED <<hpVars, dataVars, genVars>>

\* for _ in range(num_batches): enter the body or leave the loop
LoopBatch ==
    /\ pc = "batch_head"
    /\ pc' = IF bi < num_batches THEN "next" ELSE "train_acc"
    /\ UNCHANGED <<epoch, bi, x, y, grad, params, opt_state,
                   train_acc, val_acc, test_acc, out, contrib>>
    /\ UNCHANGED <<hpVars, dataVars, genVars>>

\* next(batches): control passes to the generator frame
CallNext ==
    /\ pc = "next"
    /\ ~resumed
    /\ resumed' = TRUE
    /\ pc' = "await"
    /\ UNCHANGED <<gen_pc, perm, i, batch_idx, yielded, pass, prevPass, passes>>
    /\ UNCHANGED <<epoch, bi, x, y, grad, params, opt_state,
                   train_acc, val_acc, test_acc, out, contrib>>
    /\ UNCHANGED <<hpVars, dataVars>>

\* x, y = <the yielded pair>
RecvBatch ==
    /\ pc = "await"
    /\ ~resumed
    /\ x' = yielded[1]
    /\ y' = yielded[2]
    /\ pc' = "grad"
    /\ UNCHANGED <<epoch, bi, grad, params, opt_state,
                   train_acc, val_acc, test_acc, out, contrib>>
    /\ UNCHANGED <<hpVars, dataVars, genVars>>

\* loss, grad = jax.value_and_grad(cross_entropy_loss)(params, x, y)
ValueAndGrad ==
    /\ pc = "grad"
    /\ grad' = cross_entropy_loss(params, x, y)
    /\ pc' = "update"
    /\ UNCHANGED <<epoch, bi, x, y, params, opt_state,
                   train_acc, val_acc, test_acc, out, contrib>>
    /\ UNCHANGED <<hpVars, dataVars, genVars>>

\* updates, opt_state = opt_update(...); params = optax.apply_updates(...)
Update ==
    /\ pc = "update"
    /\ opt_state' = opt_state + 1
    /\ params' = params + 1
    /\ contrib' = [s \in DOMAIN contrib |->
                     contrib[s] + Cardinality({k \in 1..Len(grad.x) : grad.x[k] = s})]
    /\ bi' = bi + 1
    /\ pc' = "batch_head"
    /\ UNCHANGED <<epoch, x, y, grad, train_acc, val_acc, test_acc, out>>
    /\ UNCHANGED <<hpVars, dataVars, genVars>>

\* variant: train_acc = accuracy(params, *next(batches)) * 100
TrainAcc_ConsumesBatch ==
    /\ pc = "train_acc"
    /\ ~resumed
    /\ resumed' = TRUE
    /\ train_acc' = accuracy(params, yielded[1], yielded[2])
    /\ pc' = "val_acc"
    /\ UNCHANGED <<gen_pc, perm, i, batch_idx, yielded, pass, prevPass, passes>>
    /\ UNCHANGED <<epoch, bi, x, y, grad, params, opt_state,
                   val_acc, test_acc, out, contrib>>
    /\ UNCHANGED <<hpVars, dataVars>>

\* train_acc = accuracy(params, train_images, train_labels) * 100
TrainAcc ==
    /\ pc = "train_acc"
    /\ train_acc' = accuracy(params, train_images, train_labels)
    /\ pc' = "val_acc"
    /\ UNCHANGED <<epoch, bi, x, y, grad, params, opt_state,
                   val_acc, test_acc, out, contrib>>
    /\ UNCHANGED <<hpVars, dataVars, genVars>>

\* val_acc = accuracy(params, val_images, val_labels) * 100
ValAcc ==
    /\ pc = "val_acc"
    /\ val_acc' = accuracy(params, val_images, val_labels)
    /\ pc' = "print_epoch"
    /\ UNCHANGED <<epoch, bi, x, y, grad, params, opt_state,
                   train_acc, test_acc, out, contrib>>
    /\ UNCHANGED <<hpVars, dataVars, genVars>>

\* the three print calls closing an epoch, then the next value of range(num_epochs)
PrintEpoch ==
    /\ pc = "print_epoch"
    /\ out' = out \o << Line("Epoch", epoch, NoValue),
                        Line("Training set accuracy", epoch, train_acc),
                        Line("Validation set accuracy", epoch, val_acc) >>
    /\ epoch' = epoch + 1
    /\ pc' = "epoch_head"
    /\ UNCHANGED <<bi, x, y, grad, params, opt_state,
                   train_acc, val_acc, test_acc, contrib>>
    /\ UNCHANGED <<hpVars, dataVars, genVars>>

\* print("\nStarting testing...")
PrintTesting ==
    /\ pc = "print_testing"
    /\ out' = Append(out, Line("Starting testing...", -1, NoValue))
    /\ pc' = "test_acc"
    /\ UNCHANGED <<epoch, bi, x, y, grad, params, opt_state,
                   train_acc, val_acc, test_acc, contrib>>
    /\ UNCHANGED <<hpVars, dataVars, genVars>>

\* test_acc = accuracy(params, test_images, test_labels) * 100
TestAcc ==
    /\ pc = "test_acc"
    /\ test_acc' = accuracy(params, test_images, test_labels)
    /\ pc' = "print_test"
    /\ UNCHANGED <<epoch, bi, x, y, grad, params, opt_state,
                   train_acc, val_acc, out, contrib>>
    /\ UNCHANGED <<hpVars, dataVars, genVars>>

\* print(f"Test set accuracy ...")
PrintTest ==
    /\ pc = "print_test"
    /\ out' = Append(out, Line("Test set accuracy", -1, test_acc))
    /\ pc' = "done"
    /\ UNCHANGED <<epoch, bi, x, y, grad, params, opt_state,
                   train_acc, val_acc, test_acc, contrib>>
    /\ UNCHANGED <<hpVars, dataVars, genVars>>

Next ==
    \/ SplitData \/ CountBatches \/ MakeStream
    \/ PrintStart \/ LoopEpoch \/ LoopBatch \/ CallNext \/ RecvBatch
    \/ ValueAndGrad \/ Update \/ TrainAcc \/ ValAcc \/ PrintEpoch
    \/ PrintTesting \/ TestAcc \/ PrintTest
    \/ GenStart \/ GenPermute \/ GenYield \/ GenResume \/ GenForEnd

Spec == Init /\ [][Next]_vars
FairSpec == Spec /\ WF_vars(Next)

\* ----------------------------------------------------- derived quantities
\* positions <<k, j>> of the rows of a sequence of batches
Cells(ps) == UNION {{<<k, j>> : j \in 1..Len(ps[k])} : k \in 1..Len(ps)}
\* number of rows of a sequence of batches holding the value v
Occ(ps, v) == Cardinality({c \in Cells(ps) : ps[c[1]][c[2]] = v})
Rows(a) == {a[k] : k \in 1..Len(a)}
\* floor of the rational num / den, den > 0, by its defining inequalities
Floor(num, den) == CHOOSE q \in (-num - 1)..(num + 1) : q * den <= num /\ num < (q + 1) * den
PassComplete == passes >= 1 /\ Len(pass) = num_batches
Lines(text) == {k \in 1..Len(out) : out[k].text = text}
InBatchLoop == pc \in {"batch_head", "next", "await", "grad", "update"}
InEpochReport == pc \in {"train_acc", "val_acc", "print_epoch"}
InTestPhase == pc \in {"print_testing", "test_acc", "print_test", "done"}

\* C1: every pair yielded by data_stream() has as many image rows as label
\* rows, and at most batch_size of them.
C1_BatchRowCounts ==
    /\ Len(yielded[1]) = Len(yielded[2])
    /\ Len(yielded[1]) <= batch_size
    /\ Len(yielded[1]) = Len(batch_idx)

C1_Witness ==
    /\ gen_pc = "yield"
    /\ Len(yielded[1]) > 0
    /\ Len(yielded[1]) < batch_size
    /\ Len(pass) >= 2

C3_PassIsSlicedPermutation ==
    /\ Len(pass) <= num_batches
    /\ \A k \in 1..Len(pass) :
          /\ \A j \in 1..Len(pass[k]) : pass[k][j] = perm[(k - 1) * batch_size + j]
          /\ k < num_batches => Len(pass[k]) = batch_size
          /\ k = num_batches =>
                Len(pass[k]) = IF train_samples % batch_size # 0
                                  THEN train_samples % batch_size
                                  ELSE batch_size
    /\ PassComplete =>
          /\ \A v \in 0..(train_samples - 1) : Occ(pass, v) = 1
          /\ Cardinality(Cells(pass)) = train_samples

C3_Witness ==
    /\ PassComplete
    /\ passes = 2
    /\ num_batches >= 2
    /\ train_samples % batch_size # 0

\* C4 as stated: once a second pass is complete its batches differ from
\* those of the pass before and cover the same samples.
C4_NextPassDiffers ==
    (passes = 2 /\ PassComplete /\ num_batches >= 1) =>
        /\ pass # prevPass
        /\ \A v \in 0..(train_samples - 1) : Occ(pass, v) = Occ(prevPass, v)

\* C4 amended: once a second pass is complete it covers exactly the samples
\* of the pass before, each as often (once), in batches of the same sizes.
C4_NextPassSameCoverage ==
    (passes = 2 /\ PassComplete /\ num_batches >= 1) =>
        /\ Len(prevPass) = Len(pass)
        /\ \A k \in 1..Len(pass) : Len(prevPass[k]) = Len(pass[k])
        /\ \A v \in 0..(train_samples - 1) :
              Occ(pass, v) = Occ(prevPass, v) /\ Occ(pass, v) = 1

C4_Witness ==
    /\ passes = 2
    /\ PassComplete
    /\ num_batches >= 2
    /\ pass # prevPass

\* C6 as stated: every next(batches) is eventually answered with a batch.
C6_NextAnswered == resumed ~> ~resumed

\* The same for a non-empty training split.
NextAnsweredNonEmpty == (resumed /\ train_samples >= 1) ~> ~resumed

C7_Terminates ==
    /\ <>(pc = "done")
    /\ [](pc = "done" => /\ Len(out) >= 1
                         /\ out[Len(out)].text = "Test set accuracy"
                         /\ out[Len(out)].value = test_acc
                         /\ test_acc # NoValue)

C7_Witness ==
    /\ pc = "done"
    /\ num_epochs >= 1
    /\ num_batches >= 1
    /\ out[Len(out)].text = "Test set accuracy"

\* C8: evaluating the loss or an accuracy leaves parameters, optimiser state,
\* generator and splits unchanged; parameters and optimiser state change only
\* in the update step, and then both.
C8_EvaluationIsPure ==
    [][ /\ pc \in {"grad", "train_acc", "val_acc", "test_acc"} =>
              UNCHANGED <<params, opt_state, genVars, dataVars>>
        /\ (params' # params \/ opt_state' # opt_state) =>
              /\ pc = "update"
              /\ params' # params
              /\ opt_state' # opt_state ]_vars

C8_Witness ==
    /\ train_acc # NoValue
    /\ val_acc # NoValue
    /\ test_acc # NoValue
    /\ grad # NoValue
    /\ params >= 2

\* C9: every driver epoch starts with the generator at the start of a fresh
\* permutation and consumes exactly that permutation: every training sample
\* enters exactly one update per epoch.
C9_EpochsAligned ==
    /\ (pc = "batch_head" /\ bi = 0) =>
          IF epoch = 0 \/ num_batches = 0
             THEN gen_pc = "unstarted"
             ELSE gen_pc = "yield" /\ i = num_batches - 1 /\ Len(pass) = num_batches
    /\ (pc \in {"batch_head", "next"} /\ bi > 0) => Len(pass) = bi
    /\ pc \in {"grad", "update"} => Len(pass) = bi + 1
    /\ (InEpochReport \/ (pc = "epoch_head" /\ epoch > 0)) => Len(pass) = num_batches
    /\ \A s \in Rows(train_images) :
          /\ pc \in {"print_start", "epoch_head"} => contrib[s] = epoch
          /\ InBatchLoop => contrib[s] \in {epoch, epoch + 1}
          /\ InEpochReport => contrib[s] = epoch + 1
          /\ InTestPhase => contrib[s] = num_epochs

C9_Witness ==
    /\ pc = "batch_head"
    /\ bi = 0
    /\ epoch = 1
    /\ num_batches >= 2
    /\ train_samples % batch_size # 0

\* C10: every index of every batch is in 0..train_samples-1 of the training
\* split, and no validation or test sample ever enters an update.
C10_NoHeldOutTrained ==
    /\ \A k \in 1..Len(batch_idx) : batch_idx[k] \in 0..(train_samples - 1)
    /\ Rows(yielded[1]) \subseteq Rows(train_images)
    /\ Rows(yielded[2]) \subseteq Rows(train_labels)
    /\ (Rows(x) \cup Rows(grad.x)) \cap (Rows(val_images) \cup Rows(test_images)) = {}
    /\ \A s \in Rows(val_images) \cup Rows(test_images) : contrib[s] = 0

C10_Witness ==
    /\ params >= 2
    /\ Len(val_images) >= 1
    /\ \E s \in Rows(train_images) : contrib[s] >= 2

====
